---- MODULE Spec2Model ----
(***************************************************************************)
(* redig: the concurrent, expiring key-value store (store.KVStore), its    *)
(* background GC routine and the command handlers that consume it.         *)
(*                                                                         *)
(* Time is counted in ticks; Second ticks make one second.  A map is a     *)
(* function whose DOMAIN is the set of keys present.  A string is a        *)
(* sequence of one-character strings.  A lock section that makes a single  *)
(* shared access is one step (acquire, access, release); a section under   *)
(* the shared lock that makes several accesses is one step per access; a   *)
(* section under the exclusive lock is one step per reading of the clock.  *)
(***************************************************************************)
EXTENDS Integers, Sequences, FiniteSets

\* ---------------------------------------------------------------- bounds
NumClients == 2
MaxKeys == 2
MaxTime == 2
MaxTTL == 1
MaxOps == 4
MaxArgs == 3
MaxFairOps == 3

\* ------------------------------------------------------------- constants
\* time.Second, in ticks
Second == 2
\* the zero time.Time, which a read of a missing expiries entry yields
ZeroTime == 0 - 1000

Clients == 1..NumClients
KeySet == 1..MaxKeys
GC == 0
None == 0 - 1

\* ---------------------------------------------------------------- strings
Digits == <<"0", "1", "2", "3", "4", "5", "6", "7", "8", "9">>

IsDigit(c) == \E i \in 1..10 : Digits[i] = c

DigitVal(c) == (CHOOSE i \in 1..10 : Digits[i] = c) - 1

RECURSIVE ParseDigits(_, _)
ParseDigits(s, acc) ==
    IF s = <<>> THEN acc
    ELSE ParseDigits(Tail(s), acc * 10 + DigitVal(Head(s)))

\* a parse whose error is dropped: what does not parse counts as 0
AtoiNoError(s) ==
    LET body == IF s # <<>> /\ Head(s) \in {"-", "+"} THEN Tail(s) ELSE s
    IN  IF body = <<>> \/ \E i \in 1..Len(body) : ~IsDigit(body[i])
        THEN [err |-> FALSE, n |-> 0]
        ELSE [err |-> FALSE,
              n |-> IF Head(s) = "-" THEN 0 - ParseDigits(body, 0)
                    ELSE ParseDigits(body, 0)]

\* strconv.Atoi: an optional sign, then one or more decimal digits
Atoi(s) ==
    LET body == IF s # <<>> /\ Head(s) \in {"-", "+"} THEN Tail(s) ELSE s
    IN  IF body = <<>> \/ \E i \in 1..Len(body) : ~IsDigit(body[i])
        THEN [err |-> TRUE, n |-> 0]
        ELSE [err |-> FALSE,
              n |-> IF Head(s) = "-" THEN 0 - ParseDigits(body, 0)
                    ELSE ParseDigits(body, 0)]

RECURSIVE FormatDigits(_)
FormatDigits(n) ==
    IF n < 10 THEN <<Digits[n + 1]>>
    ELSE Append(FormatDigits(n \div 10), Digits[(n % 10) + 1])

\* strconv.Itoa
Itoa(n) == IF n < 0 THEN <<"-">> \o FormatDigits(0 - n) ELSE FormatDigits(n)

\* the values a client sends with SET
SetValues == {<<"a", "b", "c">>, <<"7">>}
\* the ttl arguments a client sends with EXPIRE, in seconds
TTLs == (0 - 1)..MaxTTL

\* ------------------------------------------------------------------ state
VARIABLES
    store,      \* KVStore.store: key -> value
    expiries,   \* KVStore.expiries: key -> expiration instant
    now,        \* time.Now()
    writer,     \* holder of mutex.Lock(), or None
    readers,    \* holders of mutex.RLock() across more than one step
    pc,         \* where each client is in its call; a call begins with its first
                \* step
    op,         \* the call a client runs, or ran last
    key,        \* its key argument
    arg,        \* its other argument: a value, or a number (a ttl, a delta)
    ret,        \* what its last call returned
    loc,        \* locals: Keys' collected keys and its reading of the clock, Add's i
    gcpc,       \* where runGCRoutine is
    gcKeys,     \* runGCRoutine's expiredKeys still to visit
    nops,       \* number of calls started
    hist,       \* history: the maps, the clock and the previous call, as of the
                \* start of the sequential client's current call, and the
                \* expiries as of the start of the previous call
    applied,    \* history: per key, the sum of the deltas of the Add calls that
                \* returned no error
    conn,       \* the connection: the last message HandleMessage took from it
                \* and the response it wrote back
    wire        \* a connection whose client does not wait: the messages read
                \* from it and the responses written to it, each in order

vars == <<store, expiries, now, writer, readers, pc, op, key, arg, ret, loc,
          gcpc, gcKeys, nops, hist, applied, conn, wire>>

\* the other argument of a call: a value, or a number
Value(v) == [value |-> v, n |-> 0]
Number(n) == [value |-> <<>>, n |-> n]

NoRet == [ok |-> FALSE, n |-> 0, s |-> <<>>, ks |-> {}, err |-> FALSE]
NoLoc == [keys |-> {}, now |-> 0, i |-> 0]
NoConn == [verb |-> "", nargs |-> 0, pattern |-> <<>>, written |-> [type |-> "idle"]]
NoWire == [read |-> <<>>, sent |-> <<>>]
NoHist == [store |-> <<>>, expiries |-> <<>>, now |-> 0, before |-> <<>>,
           op |-> "none", key |-> 0, arg |-> Number(0), ret |-> NoRet]

\* NewKVStore: two empty maps, and the GC routine started
Init ==
    /\ store = <<>>
    /\ expiries = <<>>
    /\ now = 0
    /\ writer = None
    /\ readers = {}
    /\ pc = [p \in Clients |-> "idle"]
    /\ op = [p \in Clients |-> "none"]
    /\ key = [p \in Clients |-> 0]
    /\ arg = [p \in Clients |-> Number(0)]
    /\ ret = [p \in Clients |-> NoRet]
    /\ loc = [p \in Clients |-> NoLoc]
    /\ gcpc = "scan"
    /\ gcKeys = {}
    /\ nops = 0
    /\ hist = NoHist
    /\ applied = [k \in KeySet |-> 0]
    /\ conn = NoConn
    /\ wire = NoWire

\* ------------------------------------------------------------------- maps
HasKey(m, k) == k \in DOMAIN m

\* a write that keeps the value of a key already in the map
PutIfAbsent(m, k, v) ==
    [j \in DOMAIN m \cup {k} |-> IF j \in DOMAIN m THEN m[j] ELSE v]

\* m[k] = v
Put(m, k, v) == [j \in DOMAIN m \cup {k} |-> IF j = k THEN v ELSE m[j]]

\* delete(m, k)
Del(m, k) == [j \in DOMAIN m \ {k} |-> m[j]]

\* expiries[k], the zero time when k has no entry
ExpiryOf(k) == IF HasKey(expiries, k) THEN expiries[k] ELSE ZeroTime

\* a comparison that takes equal instants for ordered
NotAfter(t, u) == t <= u

\* time.Time.Before
Before(t, u) == t < u

\* KVStore.isExpired, at the instant t
isExpired(expiry, t) == Before(expiry, t)

\* ------------------------------------------------------------------ mutex
CanRLock == writer = None
CanLock == writer = None /\ readers = {}

\* ---------------------------------------------------------------- clients
Return(p, r) ==
    /\ pc' = [pc EXCEPT ![p] = "idle"]
    /\ ret' = [ret EXCEPT ![p] = r]

Goto(p, l) ==
    /\ pc' = [pc EXCEPT ![p] = l]
    /\ ret' = [ret EXCEPT ![p] = NoRet]

\* a client calls the Store operation o with the key k and the argument a
Call(p, o, k, a) ==
    /\ pc[p] = "idle"
    /\ nops < MaxOps
    /\ nops' = nops + 1
    /\ op' = [op EXCEPT ![p] = o]
    /\ key' = [key EXCEPT ![p] = k]
    /\ arg' = [arg EXCEPT ![p] = a]

\* a Set that clears the expiry of the key
SetClearsExpiry(p) ==
    /\ \E k \in KeySet, v \in SetValues :
          /\ Call(p, "Set", k, Value(v))
          /\ store' = Put(store, k, v)
          /\ expiries' = Del(expiries, k)
    /\ CanLock
    /\ Return(p, NoRet)
    /\ UNCHANGED <<now, writer, readers, loc, gcpc, gcKeys>>

\* KVStore.Set
Set(p) ==
    /\ \E k \in KeySet, v \in SetValues :
          /\ Call(p, "Set", k, Value(v))
          /\ store' = Put(store, k, v)
    /\ CanLock
    /\ Return(p, NoRet)
    /\ UNCHANGED <<expiries, now, writer, readers, loc, gcpc, gcKeys>>

\* checkAndRemoveIfExpired's test, under either lock: the key has an expiry and
\* it is before now
CarExpired(k) == HasKey(expiries, k) /\ Before(expiries[k], now)

\* where a call goes on after checkAndRemoveIfExpired returned removed
AfterCar(p, o, removed) ==
    IF o \in {"Incr", "Decr"} THEN Goto(p, "add")
    ELSE IF removed THEN Return(p, NoRet)
    ELSE Goto(p, "get_read")

\* the delta of Incr and of Decr; the other calls have no argument
DeltaOf(o) == IF o = "Incr" THEN 1 ELSE IF o = "Decr" THEN 0 - 1 ELSE 0

\* the calls that start with checkAndRemoveIfExpired
CarOps == {"Get", "Has", "Delete", "Incr", "Decr"}

\* a call of one of ops: checkAndRemoveIfExpired, under the read lock
CarCheckOf(p, ops) ==
    /\ \E o \in ops, k \in KeySet :
          /\ Call(p, o, k, Number(DeltaOf(o)))
          /\ IF CarExpired(k) THEN Goto(p, "car_lock") ELSE AfterCar(p, o, FALSE)
    /\ CanRLock
    /\ UNCHANGED <<store, expiries, now, writer, readers, loc, gcpc, gcKeys>>

\* Get, Has, Delete, Incr or Decr: checkAndRemoveIfExpired, under the read lock
CarCheck(p) == CarCheckOf(p, CarOps)

\* a checkAndRemoveIfExpired that deletes without the double check
CarLockNoRecheck(p) ==
    /\ pc[p] = "car_lock"
    /\ CanLock
    /\ store' = Del(store, key[p])
    /\ expiries' = Del(expiries, key[p])
    /\ AfterCar(p, op[p], TRUE)
    /\ UNCHANGED <<now, writer, readers, op, key, arg, loc, gcpc, gcKeys, nops>>

\* checkAndRemoveIfExpired, under the write lock: the double check and the delete
CarLock(p) ==
    /\ pc[p] = "car_lock"
    /\ CanLock
    /\ IF CarExpired(key[p])
       THEN /\ store' = Del(store, key[p])
            /\ expiries' = Del(expiries, key[p])
            /\ AfterCar(p, op[p], TRUE)
       ELSE /\ UNCHANGED <<store, expiries>>
            /\ AfterCar(p, op[p], FALSE)
    /\ UNCHANGED <<now, writer, readers, op, key, arg, loc, gcpc, gcKeys, nops>>

\* KVStore.Get's read of the value map, for Get, Has and Delete's Has
GetRead(p) ==
    /\ pc[p] = "get_read"
    /\ CanRLock
    /\ LET exists == HasKey(store, key[p])
           value == IF exists THEN store[key[p]] ELSE <<>>
       IN  IF op[p] = "Delete" /\ exists THEN Goto(p, "del_lock")
           ELSE IF op[p] = "Delete" THEN Return(p, NoRet)
           ELSE Return(p, [NoRet EXCEPT !.ok = exists, !.s = value])
    /\ UNCHANGED <<store, expiries, now, writer, readers, op, key, arg, loc, gcpc,
                   gcKeys, nops>>

\* a Delete that leaves the expiry of the key behind
DelLockValueOnly(p) ==
    /\ pc[p] = "del_lock"
    /\ CanLock
    /\ store' = Del(store, key[p])
    /\ Return(p, [NoRet EXCEPT !.ok = TRUE])
    /\ UNCHANGED <<expiries, now, writer, readers, op, key, arg, loc, gcpc, gcKeys,
                   nops>>

\* KVStore.Delete, once Has returned true
DelLock(p) ==
    /\ pc[p] = "del_lock"
    /\ CanLock
    /\ store' = Del(store, key[p])
    /\ expiries' = Del(expiries, key[p])
    /\ Return(p, [NoRet EXCEPT !.ok = TRUE])
    /\ UNCHANGED <<now, writer, readers, op, key, arg, loc, gcpc, gcKeys, nops>>

\* the value Add starts from: the stored one, "0" for a key not in the map
AddCurrent(p) == IF HasKey(store, key[p]) THEN store[key[p]] ELSE <<"0">>

\* an Add that takes no lock
AddAcquireUnlocked(p) == UNCHANGED writer

\* Add's s.mutex.Lock()
AddAcquire(p) == CanLock /\ writer' = p

\* KVStore.Add, under the write lock: the read of the value and its parse
AddRead(p) ==
    /\ pc[p] = "add"
    /\ LET a == Atoi(AddCurrent(p))
       IN  IF a.err
           THEN /\ CanLock
                /\ Return(p, [NoRet EXCEPT !.err = TRUE])
                /\ UNCHANGED <<writer, loc>>
           ELSE /\ AddAcquire(p)
                /\ loc' = [loc EXCEPT ![p].i = a.n]
                /\ Goto(p, "add_write")
    /\ UNCHANGED <<store, expiries, now, readers, op, key, arg, gcpc, gcKeys, nops>>

\* KVStore.Add, under the write lock: i += x, the write of the value, the unlock
AddWrite(p) ==
    /\ pc[p] = "add_write"
    /\ LET i == loc[p].i + arg[p].n
       IN  /\ store' = Put(store, key[p], Itoa(i))
           /\ Return(p, [NoRet EXCEPT !.n = i])
    /\ loc' = [loc EXCEPT ![p] = NoLoc]
    /\ writer' = None
    /\ UNCHANGED <<expiries, now, readers, op, key, arg, gcpc, gcKeys, nops>>

\* an Expire that takes a negative ttl for zero
ExpireAtClamped(ttl) == now + (IF ttl < 0 THEN 0 ELSE ttl) * Second

\* the instant Expire records: now + ttl seconds
ExpireAt(ttl) == now + ttl * Second

\* an Expire that does not look for the key in the value map
ExpCheckAnyKey(p) ==
    /\ \E k \in KeySet, ttl \in TTLs :
          /\ Call(p, "Expire", k, Number(ttl))
          /\ IF CarExpired(k)
             THEN /\ store' = Del(store, k)
                  /\ expiries' = Del(expiries, k)
                  /\ Return(p, NoRet)
                  /\ UNCHANGED writer
             ELSE /\ writer' = p
                  /\ Goto(p, "exp_set")
                  /\ UNCHANGED <<store, expiries>>
    /\ CanLock
    /\ UNCHANGED <<now, readers, loc, gcpc, gcKeys>>

\* KVStore.Expire up to its first reading of the clock
ExpCheck(p) ==
    /\ \E k \in KeySet, ttl \in TTLs :
          /\ Call(p, "Expire", k, Number(ttl))
          /\ IF ~HasKey(store, k)
             THEN /\ Return(p, NoRet)
                  /\ UNCHANGED <<store, expiries, writer>>
             ELSE IF CarExpired(k)
             THEN /\ store' = Del(store, k)
                  /\ expiries' = Del(expiries, k)
                  /\ Return(p, NoRet)
                  /\ UNCHANGED writer
             ELSE /\ writer' = p
                  /\ Goto(p, "exp_set")
                  /\ UNCHANGED <<store, expiries>>
    /\ CanLock
    /\ UNCHANGED <<now, readers, loc, gcpc, gcKeys>>

\* KVStore.Expire from its second reading of the clock
ExpSet(p) ==
    /\ pc[p] = "exp_set"
    /\ writer = p
    /\ expiries' = Put(expiries, key[p], ExpireAt(arg[p].n))
    /\ writer' = None
    /\ Return(p, [NoRet EXCEPT !.ok = TRUE])
    /\ UNCHANGED <<store, now, readers, op, key, arg, loc, gcpc, gcKeys, nops>>

\* a TTL that answers 0 when no time remains
TTLOfZero(expiry) ==
    LET remaining == expiry - now
    IN  IF remaining < 0 THEN 0 - 2 ELSE remaining \div Second

\* what TTL answers for an expiry: time.Until(expiry).Seconds(), truncated
TTLOf(expiry) ==
    LET remaining == expiry - now
    IN  IF remaining <= 0 THEN 0 - 2 ELSE remaining \div Second

\* KVStore.TTL: the read of the value map
TtlStore(p) ==
    /\ \E k \in KeySet :
          /\ Call(p, "TTL", k, Number(0))
          /\ IF ~HasKey(store, k)
             THEN /\ Return(p, [NoRet EXCEPT !.n = 0 - 2])
                  /\ UNCHANGED readers
             ELSE /\ readers' = readers \cup {p}
                  /\ Goto(p, "ttl_exp")
    /\ CanRLock
    /\ UNCHANGED <<store, expiries, now, writer, loc, gcpc, gcKeys>>

\* KVStore.TTL: the read of the expiry map
TtlExp(p) ==
    /\ pc[p] = "ttl_exp"
    /\ readers' = readers \ {p}
    /\ IF ~HasKey(expiries, key[p])
       THEN Return(p, [NoRet EXCEPT !.n = 0 - 1])
       ELSE Return(p, [NoRet EXCEPT !.n = TTLOf(expiries[key[p]])])
    /\ UNCHANGED <<store, expiries, now, writer, op, key, arg, loc, gcpc, gcKeys,
                   nops>>

\* KVStore.Persist takes the read lock only, so each of its accesses to the maps
\* is a step of its own.  The read of the value map:
PerStore(p) ==
    /\ \E k \in KeySet :
          /\ Call(p, "Persist", k, Number(0))
          /\ IF ~HasKey(store, k)
             THEN /\ Return(p, NoRet)
                  /\ UNCHANGED readers
             ELSE /\ readers' = readers \cup {p}
                  /\ Goto(p, "per_has")
    /\ CanRLock
    /\ UNCHANGED <<store, expiries, now, writer, loc, gcpc, gcKeys>>

\* a Persist that returns for a key without expiry and keeps the read lock
PerHasKeepsLock(p) ==
    /\ pc[p] = "per_has"
    /\ IF ~HasKey(expiries, key[p])
       THEN /\ Return(p, NoRet)
            /\ UNCHANGED readers
       ELSE /\ Goto(p, "per_expired")
            /\ UNCHANGED readers
    /\ UNCHANGED <<store, expiries, now, writer, op, key, arg, loc, gcpc, gcKeys,
                   nops>>

\* KVStore.Persist: has the key an expiry
PerHas(p) ==
    /\ pc[p] = "per_has"
    /\ IF ~HasKey(expiries, key[p])
       THEN /\ readers' = readers \ {p}
            /\ Return(p, NoRet)
       ELSE /\ Goto(p, "per_expired")
            /\ UNCHANGED readers
    /\ UNCHANGED <<store, expiries, now, writer, op, key, arg, loc, gcpc, gcKeys,
                   nops>>

\* KVStore.Persist: isExpired(s.expiries[key]), a second read of the expiry map
PerExpired(p) ==
    /\ pc[p] = "per_expired"
    /\ IF isExpired(ExpiryOf(key[p]), now)
       THEN Goto(p, "per_del_store")
       ELSE Goto(p, "per_del_exp_true")
    /\ UNCHANGED <<store, expiries, now, writer, readers, op, key, arg, loc, gcpc,
                   gcKeys, nops>>

\* KVStore.Persist: delete(s.store, key) of an expired key
PerDelStore(p) ==
    /\ pc[p] = "per_del_store"
    /\ store' = Del(store, key[p])
    /\ Goto(p, "per_del_exp_false")
    /\ UNCHANGED <<expiries, now, writer, readers, op, key, arg, loc, gcpc, gcKeys,
                   nops>>

\* KVStore.Persist: delete(s.expiries, key), and the return
PerDelExp(p) ==
    /\ pc[p] \in {"per_del_exp_true", "per_del_exp_false"}
    /\ expiries' = Del(expiries, key[p])
    /\ readers' = readers \ {p}
    /\ Return(p, [NoRet EXCEPT !.ok = (pc[p] = "per_del_exp_true")])
    /\ UNCHANGED <<store, now, writer, op, key, arg, loc, gcpc, gcKeys, nops>>

\* KVStore.Keys: the keys of the value map
KeysScan(p) ==
    /\ Call(p, "Keys", 0, Number(0))
    /\ CanRLock
    /\ loc' = [loc EXCEPT ![p].keys = DOMAIN store]
    /\ Goto(p, "keys_now")
    /\ UNCHANGED <<store, expiries, now, writer, readers, gcpc, gcKeys>>

\* KVStore.Keys: now := time.Now(), between the two lock sections
KeysNow(p) ==
    /\ pc[p] = "keys_now"
    /\ loc' = [loc EXCEPT ![p].now = now]
    /\ Goto(p, "keys_filter")
    /\ UNCHANGED <<store, expiries, now, writer, readers, op, key, arg, gcpc, gcKeys,
                   nops>>

\* a Keys that keeps every key it collected
ValidKeysUnfiltered(keys, t) == keys

\* the keys Keys keeps: those with no expiry, or one not before its reading of
\* the clock
ValidKeys(keys, t) ==
    {k \in keys : ~HasKey(expiries, k) \/ ~Before(expiries[k], t)}

\* KVStore.Keys: the filter
KeysFilter(p) ==
    /\ pc[p] = "keys_filter"
    /\ CanRLock
    /\ loc' = [loc EXCEPT ![p] = NoLoc]
    /\ Return(p, [NoRet EXCEPT !.ks = ValidKeys(loc[p].keys, loc[p].now)])
    /\ UNCHANGED <<store, expiries, now, writer, readers, op, key, arg, gcpc, gcKeys,
                   nops>>

\* ------------------------------------------------------------- GC routine
\* runGCRoutine, under the read lock: collect the expired keys
GcScan ==
    /\ gcpc = "scan"
    /\ CanRLock
    /\ gcKeys' = {k \in DOMAIN expiries : isExpired(expiries[k], now)}
    /\ gcpc' = IF gcKeys' = {} THEN "scan" ELSE "del"
    /\ UNCHANGED <<store, expiries, now, writer, readers, pc, op, key, arg, ret, loc,
                   nops>>

\* a GC routine that deletes the value of an expired key and leaves its expiry
GcDelValueOnly ==
    /\ gcpc = "del"
    /\ writer = GC \/ CanLock
    /\ \E k \in gcKeys :
         /\ IF CarExpired(k)
            THEN /\ store' = Del(store, k)
                 /\ UNCHANGED expiries
            ELSE UNCHANGED <<store, expiries>>
         /\ gcKeys' = gcKeys \ {k}
         /\ writer' = IF gcKeys' = {} THEN None ELSE GC
         /\ gcpc' = IF gcKeys' = {} THEN "scan" ELSE "del"
    /\ UNCHANGED <<now, readers, pc, op, key, arg, ret, loc, nops>>

\* runGCRoutine, under the write lock: recheck one collected key and delete it
GcDel ==
    /\ gcpc = "del"
    /\ writer = GC \/ CanLock
    /\ \E k \in gcKeys :
         /\ IF CarExpired(k)
            THEN /\ store' = Del(store, k)
                 /\ expiries' = Del(expiries, k)
            ELSE UNCHANGED <<store, expiries>>
         /\ gcKeys' = gcKeys \ {k}
         /\ writer' = IF gcKeys' = {} THEN None ELSE GC
         /\ gcpc' = IF gcKeys' = {} THEN "scan" ELSE "del"
    /\ UNCHANGED <<now, readers, pc, op, key, arg, ret, loc, nops>>

\* ------------------------------------------------------------------ clock
Tick ==
    /\ now < MaxTime
    /\ now' = now + 1
    /\ UNCHANGED <<store, expiries, writer, readers, pc, op, key, arg, ret, loc,
                   gcpc, gcKeys, nops>>

\* --------------------------------------------------------------- replies
CRLF == "\r\n"
ErrorFullPrefix == "-ERR "
IntegerPrefix == ":"

\* the text of a string held as a sequence of characters
RECURSIVE Text(_)
Text(s) == IF s = <<>> THEN "" ELSE Head(s) \o Text(Tail(s))

\* resp.NewError
NewError(s) == [type |-> "Error", Message |-> s, Value |-> 0]

\* resp.NewInteger
NewInteger(i) == [type |-> "Integer", Message |-> "", Value |-> i]

\* Error.ToString and Integer.ToString
ToString(r) ==
    IF r.type = "Error" THEN ErrorFullPrefix \o r.Message \o CRLF
    ELSE IntegerPrefix \o Text(Itoa(r.Value)) \o CRLF

\* what HandleIncrCommand and HandleDecrCommand reply to what Incr and Decr
\* returned
HandleAddResult(r) ==
    IF r.err THEN NewError("value is not an integer or out of range")
    ELSE NewInteger(r.n)

\* resp.NewSimpleString, resp.NewBulkString and resp.NewIntegerFromBool
NewSimpleString(v) == [type |-> "SimpleString", Message |-> "", Value |-> v]
NewBulkString(v) == [type |-> "BulkString", Message |-> "", Value |-> v]
NewIntegerFromBool(b) == IF b THEN NewInteger(1) ELSE NewInteger(0)

\* nothing written yet
NoResponse == [type |-> "none"]

\* resp.NewArray; the elements are the bulk strings of the names
NewArray(elements) ==
    [type |-> "Array", Message |-> "", Value |-> 0, Elements |-> elements]

\* --------------------------------------------------------------- commands
\* the handlers map
Handlers ==
    {"set", "get", "ping", "del", "exists", "incr", "decr", "keys", "expire", "ttl"}

\* the first words of the messages a client sends
Verbs == Handlers \cup {"GET", "persist"}

\* strings.ToLower, on Verbs
ToLower(v) == IF v = "GET" THEN "get" ELSE v

\* the name of a key
KeyName(k) == <<"k", Itoa(k)[1]>>

\* the patterns a client sends with KEYS
Patterns ==
    {<<"*">>, <<"k", "?">>, <<"k", "[", "1", "]">>, <<"[">>, <<"k", "[", "1">>,
     <<"x", "[">>}

\* the position of the first "]" of s after position i, or 0
RECURSIVE ClassEnd(_, _)
ClassEnd(s, i) ==
    IF i > Len(s) THEN 0 ELSE IF s[i] = "]" THEN i ELSE ClassEnd(s, i + 1)

\* the pattern has no syntax error: each "[" opens a class of one character or
\* more that a "]" closes
RECURSIVE WellFormed(_)
WellFormed(pat) ==
    IF pat = <<>> THEN TRUE
    ELSE IF Head(pat) = "["
    THEN LET e == ClassEnd(pat, 3)
         IN  e # 0 /\ WellFormed(SubSeq(pat, e + 1, Len(pat)))
    ELSE WellFormed(Tail(pat))

\* the name matches the well-formed pattern: "*" any characters, "?" one
\* character, a class one of its characters, any other character itself
RECURSIVE Glob(_, _)
Glob(pat, name) ==
    IF pat = <<>> THEN name = <<>>
    ELSE IF Head(pat) = "*"
    THEN Glob(Tail(pat), name) \/ (name # <<>> /\ Glob(pat, Tail(name)))
    ELSE IF name = <<>> THEN FALSE
    ELSE IF Head(pat) = "?" THEN Glob(Tail(pat), Tail(name))
    ELSE IF Head(pat) = "["
    THEN LET e == ClassEnd(pat, 3)
         IN  /\ \E i \in 2..(e - 1) : pat[i] = Head(name)
             /\ Glob(SubSeq(pat, e + 1, Len(pat)), Tail(name))
    ELSE Head(pat) = Head(name) /\ Glob(Tail(pat), Tail(name))

\* filepath.Match: a syntax error anywhere in the pattern is an error, whether
\* the name matches up to it or not
Match(pattern, name) ==
    IF WellFormed(pattern)
    THEN [patternMatch |-> Glob(pattern, name), err |-> FALSE]
    ELSE [patternMatch |-> FALSE, err |-> TRUE]

\* HandleKeysCommand's loop over the keys Keys() returned: the error of the
\* first key whose match fails with one, else the names that match
KeysResponse(pattern, keys) ==
    IF \E k \in keys : Match(pattern, KeyName(k)).err
    THEN NewError("invalid pattern")
    ELSE NewArray({KeyName(k) :
                     k \in {j \in keys : Match(pattern, KeyName(j)).patternMatch}})

\* the handlers whose Store calls CmdSpec follows; of the others it sends only
\* the messages they reject
Followed == {"set", "expire", "keys", "ping"}

\* handlers that let one argument too many through
WrongArgsLax(verb, n) ==
    IF verb \in {"set", "expire"} THEN n < 2
    ELSE IF verb = "ping" THEN n > 1
    ELSE n # 1

\* the test on len(args) each handler starts with
WrongArgs(verb, n) ==
    IF verb \in {"set", "expire"} THEN n # 2
    ELSE IF verb = "ping" THEN n > 1
    ELSE n # 1

\* HandlePingCommand, the number of arguments being right
PingResponse(n) ==
    IF n = 0 THEN NewSimpleString(<<"P", "O", "N", "G">>) ELSE NewBulkString(<<"m">>)

\* the handler of the message on the connection has yet to call the Store
Handling(verb) == ToLower(conn.verb) = verb /\ conn.written = NoResponse

\* HandleMessage up to the handler's test of len(args): it writes an error when
\* there is no handler for the verb or the handler rejects the number of
\* arguments, PING is answered at once, and any other handler goes on to its
\* Store call
HandleMessage(p) ==
    /\ pc[p] = "idle"
    /\ conn.written # NoResponse
    /\ \E verb \in Verbs, n \in 0..MaxArgs :
          LET rootCommand == ToLower(verb)
              exists == rootCommand \in Handlers
          IN  /\ ~exists \/ WrongArgs(rootCommand, n) \/ rootCommand \in Followed
              /\ \E pattern \in IF rootCommand = "keys" /\ n >= 1
                                 THEN Patterns ELSE {<<>>} :
                  conn' =
                    [verb |-> verb, nargs |-> n, pattern |-> pattern,
                     written |->
                        IF ~exists
                        THEN NewError("unknown command '" \o verb \o "'")
                        ELSE IF WrongArgs(rootCommand, n)
                        THEN NewError("wrong number of arguments for '"
                                      \o rootCommand \o "' command")
                        ELSE IF rootCommand = "ping" THEN PingResponse(n)
                        ELSE NoResponse]
    /\ UNCHANGED <<store, expiries, now, writer, readers, pc, op, key, arg, ret,
                   loc, gcpc, gcKeys, nops, hist, applied, wire>>

\* HandleSetCommand, from its call of Set on
HandleSetCommand(p) ==
    /\ Handling("set")
    /\ Set(p)
    /\ conn' = [conn EXCEPT !.written = NewSimpleString(<<"O", "K">>)]

\* HandleExpireCommand, from its call of Expire on
HandleExpireCommand(p) ==
    /\ \/ Handling("expire") /\ ExpCheck(p)
       \/ ExpSet(p)
    /\ conn' = IF pc'[p] = "idle"
               THEN [conn EXCEPT !.written = NewIntegerFromBool(ret'[p].ok)]
               ELSE conn

\* HandleKeysCommand, from its call of Keys() on
HandleKeysCommand(p) ==
    /\ \/ Handling("keys") /\ KeysScan(p)
       \/ KeysNow(p)
       \/ KeysFilter(p)
    /\ conn' = IF pc'[p] = "idle"
               THEN [conn EXCEPT !.written = KeysResponse(conn.pattern, ret'[p].ks)]
               ELSE conn

\* ---------------------------------------------------------- specifications
\* a step that records no history and writes nothing to the connection
NoHistory == UNCHANGED <<hist, applied, conn, wire>>

\* every client, the GC routine and the clock
Next ==
    \/ \E p \in Clients : Set(p) /\ NoHistory
    \/ \E p \in Clients : CarCheck(p) /\ NoHistory
    \/ \E p \in Clients : CarLock(p) /\ NoHistory
    \/ \E p \in Clients : GetRead(p) /\ NoHistory
    \/ \E p \in Clients : DelLock(p) /\ NoHistory
    \/ \E p \in Clients : AddRead(p) /\ NoHistory
    \/ \E p \in Clients : AddWrite(p) /\ NoHistory
    \/ \E p \in Clients : ExpCheck(p) /\ NoHistory
    \/ \E p \in Clients : ExpSet(p) /\ NoHistory
    \/ \E p \in Clients : TtlStore(p) /\ NoHistory
    \/ \E p \in Clients : TtlExp(p) /\ NoHistory
    \/ \E p \in Clients : PerStore(p) /\ NoHistory
    \/ \E p \in Clients : PerHas(p) /\ NoHistory
    \/ \E p \in Clients : PerExpired(p) /\ NoHistory
    \/ \E p \in Clients : PerDelStore(p) /\ NoHistory
    \/ \E p \in Clients : PerDelExp(p) /\ NoHistory
    \/ \E p \in Clients : KeysScan(p) /\ NoHistory
    \/ \E p \in Clients : KeysNow(p) /\ NoHistory
    \/ \E p \in Clients : KeysFilter(p) /\ NoHistory
    \/ GcScan /\ NoHistory
    \/ GcDel /\ NoHistory
    \/ Tick /\ NoHistory

Spec == Init /\ [][Next]_vars

\* the sequential client
SeqClient == 1

\* what hist records when the sequential client starts a call
HistNow ==
    [store |-> store, expiries |-> expiries, now |-> now,
     before |-> hist.expiries,
     op |-> op[SeqClient], key |-> key[SeqClient], arg |-> arg[SeqClient],
     ret |-> ret[SeqClient]]

\* one client, the GC routine and the clock; hist is recorded at the first step
\* of each call
NextSeq ==
    \/ Set(SeqClient) /\ hist' = HistNow /\ UNCHANGED <<applied, conn, wire>>
    \/ CarCheck(SeqClient) /\ hist' = HistNow /\ UNCHANGED <<applied, conn, wire>>
    \/ CarLock(SeqClient) /\ NoHistory
    \/ GetRead(SeqClient) /\ NoHistory
    \/ DelLock(SeqClient) /\ NoHistory
    \/ AddRead(SeqClient) /\ NoHistory
    \/ AddWrite(SeqClient) /\ NoHistory
    \/ ExpCheck(SeqClient) /\ hist' = HistNow /\ UNCHANGED <<applied, conn, wire>>
    \/ ExpSet(SeqClient) /\ NoHistory
    \/ TtlStore(SeqClient) /\ hist' = HistNow /\ UNCHANGED <<applied, conn, wire>>
    \/ TtlExp(SeqClient) /\ NoHistory
    \/ PerStore(SeqClient) /\ hist' = HistNow /\ UNCHANGED <<applied, conn, wire>>
    \/ PerHas(SeqClient) /\ NoHistory
    \/ PerExpired(SeqClient) /\ NoHistory
    \/ PerDelStore(SeqClient) /\ NoHistory
    \/ PerDelExp(SeqClient) /\ NoHistory
    \/ KeysScan(SeqClient) /\ hist' = HistNow /\ UNCHANGED <<applied, conn, wire>>
    \/ KeysNow(SeqClient) /\ NoHistory
    \/ KeysFilter(SeqClient) /\ NoHistory
    \/ GcScan /\ NoHistory
    \/ GcDel /\ NoHistory
    \/ Tick /\ NoHistory

SeqSpec == Init /\ [][NextSeq]_vars

\* every client calling Incr and Decr only, so that no key ever has an expiry;
\* applied is recorded at each write of Add
NextAdd ==
    \/ \E p \in Clients : CarCheckOf(p, {"Incr", "Decr"}) /\ NoHistory
    \/ \E p \in Clients : AddRead(p) /\ NoHistory
    \/ \E p \in Clients :
          /\ AddWrite(p)
          /\ applied' = [applied EXCEPT ![key[p]] = @ + arg[p].n]
          /\ UNCHANGED <<hist, conn, wire>>

AddSpec == Init /\ [][NextAdd]_vars

\* one client sending commands one at a time, the clock standing still:
\* HandleMessage, and the handlers of SET, EXPIRE and KEYS
NextCmd ==
    \/ HandleMessage(SeqClient)
    \/ HandleSetCommand(SeqClient) /\ UNCHANGED <<hist, applied, wire>>
    \/ HandleExpireCommand(SeqClient) /\ UNCHANGED <<hist, applied, wire>>
    \/ HandleKeysCommand(SeqClient) /\ UNCHANGED <<hist, applied, wire>>

CmdSpec == Init /\ [][NextCmd]_vars

\* ------------------------------------------- a client that does not wait
\* the messages a client sends down one connection: SET k v and GET k
Messages ==
    [verb : {"SET"}, key : KeySet, value : SetValues]
        \cup [verb : {"GET"}, key : KeySet, value : {<<>>}]

\* handleConnection: conn.Read returns the next message, whether the earlier
\* ones are answered or not, and "go cmd.HandleMessage" starts a goroutine for
\* it; the goroutine of the i-th message read is the context i
ConnRead ==
    /\ Len(wire.read) < NumClients
    /\ \E m \in Messages : wire' = [wire EXCEPT !.read = Append(@, m)]
    /\ UNCHANGED <<store, expiries, now, writer, readers, pc, op, key, arg, ret,
                   loc, gcpc, gcKeys, nops, hist, applied, conn>>

\* the goroutine p was started for a message of this verb, and its handler has
\* not called the Store yet
Started(p, verb) ==
    /\ p <= Len(wire.read)
    /\ wire.read[p].verb = verb
    /\ op[p] = "none"

\* HandleSetCommand in the goroutine p: kv.Set(args[0], args[1])
ConnSet(p) ==
    /\ Started(p, "SET")
    /\ Set(p)
    /\ key'[p] = wire.read[p].key
    /\ arg'[p] = Value(wire.read[p].value)
    /\ UNCHANGED <<hist, applied, conn, wire>>

\* HandleGetCommand in the goroutine p: kv.Get(args[0]), up to the end of the
\* read section of checkAndRemoveIfExpired
ConnGet(p) ==
    /\ Started(p, "GET")
    /\ CarCheckOf(p, {"Get"})
    /\ key'[p] = wire.read[p].key
    /\ UNCHANGED <<hist, applied, conn, wire>>

\* HandleGetCommand in the goroutine p: the read section of Get (no message
\* sets an expiry, so checkAndRemoveIfExpired has returned false)
ConnGetRead(p) ==
    /\ GetRead(p)
    /\ UNCHANGED <<hist, applied, conn, wire>>

\* what the handler of the goroutine p returns: resp.NewOKResponse() for SET,
\* the bulk string of the value for GET, with the empty value for a key not
\* found
ConnResponse(p) ==
    IF op[p] = "Set" THEN NewSimpleString(<<"O", "K">>)
    ELSE IF ret[p].ok THEN NewBulkString(ret[p].s)
    ELSE NewBulkString(<<>>)

\* HandleMessage in the goroutine p, once its handler has returned:
\* conn.Write([]byte(response.ToString()))
ConnWrite(p) ==
    /\ pc[p] = "idle"
    /\ op[p] \in {"Set", "Get"}
    /\ \A i \in 1..Len(wire.sent) : wire.sent[i].from # p
    /\ wire' = [wire EXCEPT
                    !.sent = Append(@, [from |-> p, response |-> ConnResponse(p)])]
    /\ UNCHANGED <<store, expiries, now, writer, readers, pc, op, key, arg, ret,
                   loc, gcpc, gcKeys, nops, hist, applied, conn>>

\* one connection, and one goroutine for each message read from it
NextConn ==
    \/ ConnRead
    \/ \E p \in Clients : ConnSet(p)
    \/ \E p \in Clients : ConnGet(p)
    \/ \E p \in Clients : ConnGetRead(p)
    \/ \E p \in Clients : ConnWrite(p)

ConnSpec == Init /\ [][NextConn]_vars

\* a client's call goes on: every step of a call but its first
Continue(p) ==
    \/ CarLock(p)
    \/ GetRead(p)
    \/ DelLock(p)
    \/ AddRead(p)
    \/ AddWrite(p)
    \/ ExpSet(p)
    \/ TtlExp(p)
    \/ PerHas(p)
    \/ PerExpired(p)
    \/ PerDelStore(p)
    \/ PerDelExp(p)
    \/ KeysNow(p)
    \/ KeysFilter(p)

\* the calls that may still begin under fair scheduling
MayCall == nops < MaxFairOps

\* every client, the GC routine and the clock, as in Next, with a smaller
\* budget of calls
NextFair ==
    \/ \E p \in Clients : MayCall /\ Set(p) /\ NoHistory
    \/ \E p \in Clients : MayCall /\ CarCheck(p) /\ NoHistory
    \/ \E p \in Clients : MayCall /\ ExpCheck(p) /\ NoHistory
    \/ \E p \in Clients : MayCall /\ TtlStore(p) /\ NoHistory
    \/ \E p \in Clients : MayCall /\ PerStore(p) /\ NoHistory
    \/ \E p \in Clients : MayCall /\ KeysScan(p) /\ NoHistory
    \/ \E p \in Clients : Continue(p) /\ NoHistory
    \/ GcScan /\ NoHistory
    \/ GcDel /\ NoHistory
    \/ Tick /\ NoHistory

\* what a step of a goroutine changes: its position, the lock or the maps
sched == <<pc, gcpc, gcKeys, writer, readers, store, expiries>>

\* the scheduler runs every goroutine that can take a step: the GC routine
\* wakes up after each sleep and goes on when it can take the lock, and a call
\* that has begun goes on when it can take the lock; no client has to call
Fairness ==
    /\ WF_sched(GcScan /\ NoHistory)
    /\ WF_sched(GcDel /\ NoHistory)
    /\ \A p \in Clients : WF_sched(Continue(p) /\ NoHistory)

FairSpec == Init /\ [][NextFair]_vars /\ Fairness

\* ------------------------------------------------------------------ claims
\* the number a key stands for: its stored value, 0 when it is not in the map
NumberOf(k) == Atoi(IF HasKey(store, k) THEN store[k] ELSE <<"0">>)

\* C1: when the clients call Incr and Decr concurrently on keys that never
\* expire, no call fails and no update is lost: whenever no Add is between its
\* read and its write of a key, the stored value of the key is the number 0 it
\* started from plus the sum of the deltas of all the calls that have written,
\* and each call returns the value it wrote.
C1_AddLinearizable ==
    /\ \A p \in Clients : ~ret[p].err
    /\ \A k \in KeySet :
          (\A p \in Clients : ~(pc[p] = "add_write" /\ key[p] = k))
             => /\ ~NumberOf(k).err
                /\ NumberOf(k).n = applied[k]
                /\ applied[k] # 0 => HasKey(store, k) /\ store[k] = Itoa(applied[k])

\* C1: one client holds the lock between its read and its write of a key that
\* earlier calls have changed, while another client waits to add to the same key
C1_Witness ==
    \E p, q \in Clients :
        /\ p # q
        /\ pc[p] = "add_write"
        /\ pc[q] = "add"
        /\ key[p] = key[q]
        /\ applied[key[p]] # 0

\* the sequential client has returned from a call of o
Returned(o) == pc[SeqClient] = "idle" /\ op[SeqClient] = o

\* the call before the current one was a call of o on the same key
After(o) == hist.op = o /\ hist.key = key[SeqClient]

\* C3: Set(k, v) followed immediately by Get(k) returns (v, true) when k has no
\* expiry or one that is not in the past, and not-found when the expiry of k was
\* already in the past as the Get was called; a Get that returns not-found has
\* found an expiry of k in the past.
C3_SetThenGet ==
    Returned("Get") /\ After("Set") =>
        LET k == key[SeqClient]
            r == ret[SeqClient]
            hadExp == HasKey(hist.before, k)
        IN  /\ r.ok => r.s = hist.arg.value
            /\ ~r.ok => hadExp /\ hist.before[k] < now
            /\ hadExp /\ hist.before[k] < hist.now => ~r.ok

\* C3: a Get right after a Set that overwrote the value of a key with an expiry
\* returned the new value
C3_Witness ==
    /\ Returned("Get")
    /\ After("Set")
    /\ ret[SeqClient].ok
    /\ ret[SeqClient].s = <<"7">>
    /\ HasKey(hist.before, key[SeqClient])
    /\ HasKey(store, key[SeqClient])

\* a key is logically present: it is in the value map and has no expiry, or one
\* strictly in the future
LogicallyPresent(k) ==
    HasKey(store, k) /\ (HasKey(expiries, k) => expiries[k] > now)

\* C2: whenever Get or Has reads the value map and returns found, the key is
\* logically present at that moment.
C2_GetObservesLogicalPresence ==
    [][\A p \in Clients :
          /\ pc[p] = "get_read"
          /\ pc'[p] = "idle"
          /\ op[p] \in {"Get", "Has"}
          /\ ret'[p].ok
          => LogicallyPresent(key[p])]_vars

\* C4: Expire(k, ttl) with ttl < 0 on a key that is in the value map with no
\* expiry, or one not in the past, returns true; a Get(k) right after it returns
\* not-found and leaves k in neither map; a TTL(k) right after a Get(k) that
\* returned not-found returns -2.
C4_NegativeExpire ==
    LET k == key[SeqClient]
        r == ret[SeqClient]
    IN  /\ /\ Returned("Expire")
           /\ arg[SeqClient].n < 0
           /\ HasKey(hist.store, k)
           /\ HasKey(hist.expiries, k) => hist.expiries[k] >= now
           => r.ok
        /\ Returned("Get") /\ After("Expire") /\ hist.arg.n < 0 /\ hist.ret.ok
           => ~r.ok /\ ~HasKey(store, k) /\ ~HasKey(expiries, k)
        /\ Returned("TTL") /\ After("Get") /\ ~hist.ret.ok
           => r.n = 0 - 2

\* C4: a Get right after an Expire with a negative ttl that returned true found
\* the key in the value map, expired, and removed it
C4_Witness ==
    /\ Returned("Get")
    /\ After("Expire")
    /\ hist.arg.n < 0
    /\ hist.ret.ok
    /\ HasKey(hist.store, key[SeqClient])
    /\ HasKey(hist.expiries, key[SeqClient])
    /\ ~ret[SeqClient].ok
    /\ ~HasKey(store, key[SeqClient])

\* C5: after Expire(k, 0) returned true, and while the clock still shows the
\* instant it recorded, Get(k) and Has(k) return not-found, Keys() leaves k out
\* and TTL(k) returns -2.
C5_ExpiredAtTheInstant ==
    LET k == hist.key
        r == ret[SeqClient]
    IN  /\ pc[SeqClient] = "idle"
        /\ hist.op = "Expire"
        /\ hist.arg.n = 0
        /\ hist.ret.ok
        /\ HasKey(hist.expiries, k)
        /\ hist.expiries[k] = now
        => /\ op[SeqClient] \in {"Get", "Has"} /\ key[SeqClient] = k => ~r.ok
           /\ op[SeqClient] = "Keys" => k \notin r.ks
           /\ op[SeqClient] = "TTL" /\ key[SeqClient] = k => r.n = 0 - 2

\* the key j is as it was when the current call began, or the GC routine has
\* removed it since because its expiry was in the past
KeptOrReaped(j) ==
    \/ /\ HasKey(store, j) <=> HasKey(hist.store, j)
       /\ HasKey(store, j) => store[j] = hist.store[j]
       /\ HasKey(expiries, j) <=> HasKey(hist.expiries, j)
       /\ HasKey(expiries, j) => expiries[j] = hist.expiries[j]
    \/ /\ HasKey(hist.expiries, j)
       /\ hist.expiries[j] < now
       /\ ~HasKey(store, j)
       /\ ~HasKey(expiries, j)

\* C6: Persist(k) on a key in the value map with an expiry that is not in the
\* past returns true, removes the expiry and leaves the value as it was;
\* Persist(k) on a key that is not in the value map, or has no expiry, returns
\* false and changes neither map; right after a Persist(k) that returned true,
\* TTL(k) returns -1 and Get(k) returns the value.
C6_Persist ==
    LET k == key[SeqClient]
        r == ret[SeqClient]
    IN  /\ /\ Returned("Persist")
           /\ HasKey(hist.store, k)
           /\ HasKey(hist.expiries, k)
           /\ hist.expiries[k] >= now
           => /\ r.ok
              /\ ~HasKey(expiries, k)
              /\ HasKey(store, k)
              /\ store[k] = hist.store[k]
              /\ \A j \in KeySet \ {k} : KeptOrReaped(j)
        /\ /\ Returned("Persist")
           /\ ~HasKey(hist.store, k) \/ ~HasKey(hist.expiries, k)
           => ~r.ok /\ \A j \in KeySet : KeptOrReaped(j)
        /\ Returned("TTL") /\ After("Persist") /\ hist.ret.ok
           => r.n = 0 - 1
        /\ Returned("Get") /\ After("Persist") /\ hist.ret.ok
           => r.ok /\ r.s = hist.store[k]

\* C6: a Persist right after an Expire with a positive ttl returned true and
\* removed the expiry
C6_Witness ==
    /\ Returned("Persist")
    /\ After("Expire")
    /\ hist.arg.n > 0
    /\ hist.ret.ok
    /\ HasKey(hist.expiries, key[SeqClient])
    /\ ret[SeqClient].ok
    /\ ~HasKey(expiries, key[SeqClient])
    /\ HasKey(store, key[SeqClient])

\* C7: Delete(k) on a key in the value map with no expiry, or one that is not
\* in the past, returns true and removes k from both maps; a Delete(k) right
\* after a Delete(k) returns false and changes neither map; Delete(k) on a key
\* that is not in the value map, or whose expiry was in the past as it was
\* called, returns false.
C7_Delete ==
    LET k == key[SeqClient]
        r == ret[SeqClient]
    IN  Returned("Delete") =>
          /\ /\ HasKey(hist.store, k)
             /\ HasKey(hist.expiries, k) => hist.expiries[k] >= now
             => r.ok
          /\ r.ok => ~HasKey(store, k) /\ ~HasKey(expiries, k)
          /\ After("Delete") => ~r.ok /\ \A j \in KeySet : KeptOrReaped(j)
          /\ ~HasKey(hist.store, k) => ~r.ok
          /\ HasKey(hist.expiries, k) /\ hist.expiries[k] < hist.now => ~r.ok

\* C7: the second of two Delete calls in a row returned false, the first having
\* returned true for a key with an expiry
C7_Witness ==
    /\ Returned("Delete")
    /\ After("Delete")
    /\ hist.ret.ok
    /\ HasKey(hist.before, key[SeqClient])
    /\ ~ret[SeqClient].ok

\* C8: no Delete returns true for a key that is no longer in the value map when
\* the call removes it, so that of several concurrent Delete calls on one key
\* only one returns true.
C8_DeleteReportsDeletion ==
    [][\A p \in Clients :
          pc[p] = "del_lock" /\ pc'[p] = "idle" /\ ret'[p].ok
          => HasKey(store, key[p])]_vars

\* s is the decimal text of an integer
IsIntegerText(s) == \E n \in (0 - 99)..99 : s = Itoa(n)

\* C9: Incr and Decr on a key in the value map whose value does not parse as an
\* integer, and whose expiry, if it has one, is not in the past, return an
\* error, leave the key as it was in both maps and touch no other key, and the
\* handler replies with the error "value is not an integer or out of range".
C9_AddFailureLeavesStore ==
    LET k == key[SeqClient]
        r == ret[SeqClient]
    IN  /\ pc[SeqClient] = "idle"
        /\ op[SeqClient] \in {"Incr", "Decr"}
        /\ HasKey(hist.store, k)
        /\ ~IsIntegerText(hist.store[k])
        /\ HasKey(hist.expiries, k) => hist.expiries[k] >= now
        => /\ r.err
           /\ HasKey(store, k)
           /\ store[k] = hist.store[k]
           /\ HasKey(expiries, k) <=> HasKey(hist.expiries, k)
           /\ HasKey(expiries, k) => expiries[k] = hist.expiries[k]
           /\ \A j \in KeySet \ {k} : KeptOrReaped(j)
           /\ HandleAddResult(r).type = "Error"
           /\ ToString(HandleAddResult(r))
                 = "-ERR value is not an integer or out of range\r\n"

\* C9: an Incr on a key holding "abc", with an expiry in the future, returned an
\* error
C9_Witness ==
    /\ Returned("Incr")
    /\ HasKey(hist.store, key[SeqClient])
    /\ hist.store[key[SeqClient]] = <<"a", "b", "c">>
    /\ HasKey(hist.expiries, key[SeqClient])
    /\ hist.expiries[key[SeqClient]] > now
    /\ ret[SeqClient].err
    /\ store = hist.store

\* C10: when Add reads the value of a key that is not in the value map, or whose
\* expiry is in the past, it takes 0 for it and fails with no error, whatever the
\* value map holds; and Add returns, and stores the text of, what it read plus
\* delta.
C10_AddTreatsAbsentAsZero ==
    [][\A p \in Clients :
          /\ /\ pc[p] = "add"
             /\ pc'[p] # "add"
             /\ \/ ~HasKey(store, key[p])
                \/ HasKey(expiries, key[p]) /\ expiries[key[p]] < now
             => ~ret'[p].err /\ pc'[p] = "add_write" /\ loc'[p].i = 0
          /\ pc[p] = "add_write" /\ pc'[p] = "idle"
             => /\ ret'[p].n = loc[p].i + arg[p].n
                /\ store'[key[p]] = Itoa(loc[p].i + arg[p].n)]_vars

\* the sequential client returns from a call of TTL in this step
TtlReturns ==
    /\ pc'[SeqClient] = "idle"
    /\ op'[SeqClient] = "TTL"
    /\ nops' # nops \/ pc[SeqClient] = "ttl_exp"

\* C11: TTL(k) returns -2 when k is not in the value map or the time remaining
\* to its expiry is zero or less, -1 when k is in the value map with no expiry,
\* and otherwise the number n >= 0 of whole seconds in the time remaining
\* (n seconds <= remaining < n + 1 seconds); no step of TTL changes either map.
C11_TTL ==
    [][/\ TtlReturns =>
            LET k == key'[SeqClient]
                n == ret'[SeqClient].n
                remaining == expiries[k] - now
            IN  /\ ~HasKey(store, k) => n = 0 - 2
                /\ HasKey(store, k) /\ ~HasKey(expiries, k) => n = 0 - 1
                /\ HasKey(store, k) /\ HasKey(expiries, k) /\ remaining <= 0
                   => n = 0 - 2
                /\ HasKey(store, k) /\ HasKey(expiries, k) /\ remaining > 0
                   => /\ n >= 0
                      /\ n * Second <= remaining
                      /\ remaining < (n + 1) * Second
       /\ TtlReturns \/ pc'[SeqClient] = "ttl_exp"
            => store' = store /\ expiries' = expiries]_vars

\* C11: TTL returned 0 for a key with half a second left
C11_Witness ==
    /\ Returned("TTL")
    /\ ret[SeqClient].n = 0
    /\ HasKey(store, key[SeqClient])
    /\ HasKey(expiries, key[SeqClient])
    /\ expiries[key[SeqClient]] - now = 1

\* neither map has changed since the sequential client's current call began
MapsAsAtCall == store = hist.store /\ expiries = hist.expiries

\* C12: when nothing has changed the maps since it was called, Keys() returns
\* keys of the value map only, among them every key with no expiry or an expiry
\* after the instant Keys read the clock, and no key whose expiry is before that
\* instant.
C12_KeysReturnsPresent ==
    [][/\ pc[SeqClient] = "keys_filter"
       /\ pc'[SeqClient] = "idle"
       /\ MapsAsAtCall
       => LET ks == ret'[SeqClient].ks
              t == loc[SeqClient].now
          IN  /\ ks \subseteq DOMAIN store
              /\ \A k \in DOMAIN store :
                    /\ ~HasKey(expiries, k) => k \in ks
                    /\ HasKey(expiries, k) /\ expiries[k] > t => k \in ks
                    /\ HasKey(expiries, k) /\ expiries[k] < t => k \notin ks]_vars

\* C12: Keys returned one of two keys of the value map, the other having an
\* expiry in the past
C12_Witness ==
    /\ Returned("Keys")
    /\ MapsAsAtCall
    /\ \E k, j \in KeySet :
          /\ ret[SeqClient].ks = {k}
          /\ j # k
          /\ HasKey(store, j)
          /\ HasKey(expiries, j)
          /\ expiries[j] < now

\* C13: when Keys() returns, every key it collected and found with an expiry
\* before its reading of the clock is in neither the value map nor the expiry
\* map.
C13_KeysEvicts ==
    [][/\ pc[SeqClient] = "keys_filter"
       /\ pc'[SeqClient] = "idle"
       => \A k \in loc[SeqClient].keys :
             HasKey(expiries, k) /\ expiries[k] < loc[SeqClient].now
                => ~HasKey(store', k) /\ ~HasKey(expiries', k)]_vars

\* C14: a step of Set(k, v) leaves the expiry map as it was, so that k keeps
\* the expiry it had, makes v the value of k, and leaves every other key of the
\* value map as it was.
C14_SetFrame ==
    [][nops' # nops /\ op'[SeqClient] = "Set"
       => LET k == key'[SeqClient]
              v == arg'[SeqClient].value
          IN  /\ expiries' = expiries
              /\ HasKey(store', k)
              /\ store'[k] = v
              /\ \A j \in KeySet \ {k} :
                    /\ HasKey(store', j) <=> HasKey(store, j)
                    /\ HasKey(store, j) => store'[j] = store[j]]_vars

\* C14: a Set has given a new value to a key whose expiry is in the past, the
\* expiry is still recorded, and another key is in the value map
C14_Witness ==
    /\ Returned("Set")
    /\ LET k == key[SeqClient]
       IN  /\ HasKey(hist.store, k)
           /\ hist.store[k] # arg[SeqClient].value
           /\ HasKey(hist.expiries, k)
           /\ hist.expiries[k] < hist.now
           /\ HasKey(store, k)
           /\ store[k] = arg[SeqClient].value
           /\ HasKey(expiries, k)
           /\ expiries[k] = hist.expiries[k]
           /\ \E j \in KeySet \ {k} : HasKey(store, j)

\* C15: for a key k that is not in the value map when the call begins (never
\* set, or deleted since), Get(k) returns not-found, Has(k) returns false,
\* TTL(k) returns -2, Expire(k, t) and Persist(k) return false, and after each
\* of them k is in neither map.
C15_AbsentKey ==
    LET k == key[SeqClient]
        r == ret[SeqClient]
    IN  /\ pc[SeqClient] = "idle"
        /\ op[SeqClient] \in {"Get", "Has", "TTL", "Expire", "Persist"}
        /\ ~HasKey(hist.store, k)
        => /\ op[SeqClient] = "TTL" => r.n = 0 - 2
           /\ op[SeqClient] # "TTL" => ~r.ok
           /\ ~HasKey(store, k)
           /\ ~HasKey(expiries, k)

\* C15: an Expire right after a Delete of the same key that returned true
\* returned false, and the key is in neither map
C15_Witness ==
    /\ Returned("Expire")
    /\ After("Delete")
    /\ hist.ret.ok
    /\ ~HasKey(hist.store, key[SeqClient])
    /\ ~ret[SeqClient].ok
    /\ ~HasKey(store, key[SeqClient])
    /\ ~HasKey(expiries, key[SeqClient])

\* the numbers of arguments each command takes
ArgCounts(verb) ==
    IF verb \in {"set", "expire"} THEN {2}
    ELSE IF verb = "ping" THEN {0, 1}
    ELSE {1}

\* a message with an unknown verb or a wrong number of arguments
BadMessage(m) ==
    /\ m.verb \in Verbs
    /\ \/ ToLower(m.verb) \notin
             {"set", "get", "del", "exists", "incr", "decr", "keys", "expire",
              "ttl", "ping"}
       \/ m.nargs \notin ArgCounts(ToLower(m.verb))

\* C16: a message with an unknown verb, or with a number of arguments its
\* command does not take, is answered with an error; the step that answers it
\* changes neither map and starts no Store call, and no Store call starts while
\* such a message is the one on the connection.
C16_BadCommandRejected ==
    [][/\ BadMessage(conn') =>
            /\ conn'.written.type = "Error"
            /\ conn' # conn =>
                  store' = store /\ expiries' = expiries /\ nops' = nops /\ pc' = pc
       /\ nops' # nops => ~BadMessage(conn)]_vars

\* C16: a SET with three arguments was answered with an error while both maps
\* hold a key
C16_Witness ==
    /\ conn.verb = "set"
    /\ conn.nargs = 3
    /\ conn.written.type = "Error"
    /\ store # <<>>
    /\ expiries # <<>>

\* C17: a KEYS with one argument that is a malformed pattern is never answered
\* with anything but an error.
C17_MalformedPatternIsError ==
    /\ conn.verb = "keys"
    /\ conn.nargs = 1
    /\ ~WellFormed(conn.pattern)
    /\ conn.written # NoResponse
    => conn.written.type = "Error"

\* C18: no step changes the value map or the expiry map while a context holds
\* the shared lock: every change is made under the exclusive lock.
C18_MutationsUnderWriteLock ==
    [][store' # store \/ expiries' # expiries => readers = {}]_vars

\* this step is one of the GC routine's delete loop, or the write-locked part
\* of some client's checkAndRemoveIfExpired
EvictionStep ==
    \/ gcpc = "del" /\ gcKeys' # gcKeys
    \/ \E p \in Clients : pc[p] = "car_lock" /\ pc'[p] # "car_lock"

\* the key has an expiry that is in the past
Lapsed(k) == HasKey(expiries, k) /\ expiries[k] < now

\* C19: whenever the GC routine or checkAndRemoveIfExpired removes a key from
\* a map, the key has an expiry in the past at that moment; a key that has no
\* expiry, or one not in the past, when they come to delete it is left as it
\* is in both maps.
C19_NoLiveKeyEvicted ==
    [][EvictionStep =>
          \A k \in KeySet :
             /\ \/ HasKey(store, k) /\ ~HasKey(store', k)
                \/ HasKey(expiries, k) /\ ~HasKey(expiries', k)
                => Lapsed(k)
             /\ ~Lapsed(k) =>
                   /\ HasKey(store', k) <=> HasKey(store, k)
                   /\ HasKey(store, k) => store'[k] = store[k]
                   /\ HasKey(expiries', k) <=> HasKey(expiries, k)
                   /\ HasKey(expiries, k) => expiries'[k] = expiries[k]]_vars

\* C19: a client found a key expired under the read lock and comes to the
\* write-locked part when the key, evicted and set again since, has no expiry
C19_Witness ==
    \E p \in Clients :
        /\ pc[p] = "car_lock"
        /\ HasKey(store, key[p])
        /\ ~HasKey(expiries, key[p])

\* C20: in every state in which no context holds the write lock, every key of
\* the expiry map is a key of the value map.
C20_NoOrphanExpiry ==
    writer = None => DOMAIN expiries \subseteq DOMAIN store

\* the key is in neither map
Absent(k) == ~HasKey(store, k) /\ ~HasKey(expiries, k)

\* no call is about to change the expiry of the key: no Expire is between its
\* test of the expiry and its write, and no Persist has found the expiry ahead
\* and is about to clear it
ExpirySettled(k) ==
    \A p \in Clients :
        key[p] = k => pc[p] \notin {"exp_set", "per_del_exp_true"}

\* C21: under fair scheduling, a key whose expiry is in the past, and that no
\* Expire or Persist under way is about to change, is eventually in neither
\* map, whether any client calls again or not.
C21_ExpiredKeyReclaimed ==
    \A k \in KeySet : (Lapsed(k) /\ ExpirySettled(k)) ~> Absent(k)

\* C21: after two calls only, a Set and an Expire that returned true, the key
\* is in neither map: the GC routine has reclaimed it
C21_Witness ==
    /\ nops = 2
    /\ \E p \in Clients :
          /\ pc[p] = "idle"
          /\ op[p] = "Expire"
          /\ ret[p].ok
          /\ Absent(key[p])

\* the positions of a call inside a section under the read lock, and inside
\* one under the write lock, between two steps
ReadSections ==
    {"ttl_exp", "per_has", "per_expired", "per_del_store", "per_del_exp_true",
     "per_del_exp_false"}
WriteSections == {"add_write", "exp_set"}

\* the positions of a call from which its next step takes the lock
LockingPositions ==
    {"idle", "car_lock", "get_read", "del_lock", "add", "keys_now", "keys_filter"}

\* a context holds the lock only inside a lock section: one that has returned,
\* or that is about to take the lock, holds it in neither mode; the lock is
\* not held in both modes
LockDiscipline ==
    /\ \A p \in Clients :
          /\ p \in readers => pc[p] \in ReadSections
          /\ writer = p => pc[p] \in WriteSections
          /\ pc[p] \in LockingPositions => p \notin readers /\ writer # p
          /\ pc[p] \in ReadSections \cup WriteSections \cup LockingPositions
    /\ writer = GC => gcpc = "del"
    /\ writer # None => readers = {}

\* C22: under fair scheduling every call a client has begun returns, and the GC
\* routine gets through its write section once it has keys to delete, whatever
\* the other clients and the GC routine do meanwhile; a context that takes the lock holds it in neither
\* mode, and one that has returned has released it.
C22_DeadlockFree ==
    /\ []LockDiscipline
    /\ \A p \in Clients : (pc[p] # "idle") ~> (pc[p] = "idle")
    /\ (gcpc = "del") ~> (gcpc = "scan" /\ writer # GC)

\* C22: a call waits for the write lock while another client is inside a section
\* under the read lock
C22_Witness ==
    \E p, q \in Clients :
        /\ p # q
        /\ pc[p] \in {"car_lock", "del_lock", "add"}
        /\ q \in readers

\* C23: when the client has sent SET k v and then GET k down one connection
\* and both are answered, the first response written is +OK, from the SET, and
\* the second is the bulk string of v, from the GET.
C23_RepliesInOrderRead ==
    \A k \in KeySet : \A v \in SetValues :
        /\ wire.read = <<[verb |-> "SET", key |-> k, value |-> v],
                         [verb |-> "GET", key |-> k, value |-> <<>>]>>
        /\ Len(wire.sent) = 2
        => wire.sent = <<[from |-> 1, response |-> NewSimpleString(<<"O", "K">>)],
                        [from |-> 2, response |-> NewBulkString(v)]>>

====
